---- MODULE Spec2Model ----
(***************************************************************************)
(* Account REST service (service/routes.py).  The state is the committed   *)
(* accounts table; every action is one HTTP request handled start to       *)
(* finish by the Flask view the route table selects.  The last request,    *)
(* its response and the table as it was before the request are recorded so *)
(* that the contract of each endpoint can be stated over single states.    *)
(***************************************************************************)
EXTENDS Integers, Sequences, FiniteSets, TLC

VARIABLES store,      \* committed rows of the accounts table, in insertion order
          next_id,    \* next value of the primary-key sequence
          req,        \* the request handled last
          resp,       \* the response to it
          pstore,     \* store as it was when that request arrived
          prev,       \* what the request before it did to the table
          live        \* ids answered 201 on create and not answered 204 on delete since

vars == <<store, next_id, req, resp, pstore, prev, live>>

----------------------------------------------------------------------------
\* Bounds and input alphabets

MaxId == 2                      \* at most MaxId accounts are ever created

ABSENT == "ABSENT"              \* a key / header that is not there
NULL == "null"                  \* JSON null / Python None

HTTP_200_OK == 200
HTTP_201_CREATED == 201
HTTP_204_NO_CONTENT == 204
HTTP_400_BAD_REQUEST == 400
HTTP_404_NOT_FOUND == 404
HTTP_405_METHOD_NOT_ALLOWED == 405
HTTP_415_UNSUPPORTED_MEDIA_TYPE == 415

JSON_TYPE == "application/json"
JSON_CHARSET == "application/json; charset=utf-8"
ContentTypes == {ABSENT, JSON_TYPE, JSON_CHARSET, "text/html"}

Dates == {"d1", "d2"}           \* values of the server's date.today()

Methods == {"GET", "POST", "PUT", "DELETE", "PATCH", "HEAD", "OPTIONS"}
COLLECTION == "/accounts"
RESOURCE == "/accounts/<id>"
Paths == {"/health", "/", COLLECTION, RESOURCE}

Ids == 0 .. MaxId               \* 0 is never assigned by the sequence

\* Request bodies.  kind "object" is a JSON object whose keys are the fields
\* that are not ABSENT; "array" is valid JSON that is not an object;
\* "malformed" is not JSON at all.
Obj(n, e, a, p, i, d) ==
    [kind |-> "object", name |-> n, email |-> e, address |-> a,
     phone_number |-> p, id |-> i, date_joined |-> d]

Sam == Obj("Sam", "sam@x.com", "1 Rd", "555-0100", ABSENT, ABSENT)
Kim == Obj("Kim", "kim@y.org", "2 Ave", ABSENT, "99", "d0")
NoName == Obj(ABSENT, "sam@x.com", "1 Rd", "555-0100", ABSENT, ABSENT)
NoEmail == Obj("Sam", ABSENT, "1 Rd", ABSENT, ABSENT, ABSENT)
NoAddress == Obj("Sam", "sam@x.com", ABSENT, "555-0100", ABSENT, ABSENT)
Blank == Obj(ABSENT, ABSENT, ABSENT, ABSENT, ABSENT, ABSENT)
ArrayBody == [Blank EXCEPT !.kind = "array"]
Malformed == [Blank EXCEPT !.kind = "malformed"]
NoBody == [Blank EXCEPT !.kind = "none"]      \* no body sent; also Python None

Bodies == {Sam, Kim, NoName, NoEmail, NoAddress, ArrayBody, Malformed}

ValidPayload(b) ==
    /\ b.kind = "object"
    /\ b.name # ABSENT /\ b.email # ABSENT /\ b.address # ABSENT

\* data.get("phone_number"): None when the key is absent
PhoneOf(b) == IF b.phone_number = ABSENT THEN NULL ELSE b.phone_number

----------------------------------------------------------------------------
\* Account model and store primitives (service/models.py)

NoAccount ==
    [id |-> 0, name |-> NULL, email |-> NULL, address |-> NULL,
     phone_number |-> NULL, date_joined |-> NULL]

StoreIds(s) == {s[k].id : k \in 1 .. Len(s)}

\* Account.find(by_id): the row with that primary key, or None
Found(s, id) == id \in StoreIds(s)
Account_find(s, id) == CHOOSE a \in {s[k] : k \in 1 .. Len(s)} : a.id = id

\* Account.all()
Account_all(s) == s

\* account.deserialize(data) succeeds
DeserializeOk(data) == ValidPayload(data)

\* account.deserialize(data): the mutable fields taken from the body
Account_deserialize(account, data) ==
    [account EXCEPT !.name = data.name, !.email = data.email,
                    !.address = data.address, !.phone_number = PhoneOf(data)]

\* account.create(): the store assigns identifier and join date and commits
Account_create(s, nid, account, today) ==
    Append(s, [account EXCEPT !.id = nid, !.date_joined = today])

RECURSIVE Without(_, _)
Without(s, id) ==
    IF s = <<>> THEN <<>>
    ELSE IF Head(s).id = id THEN Without(Tail(s), id)
    ELSE <<Head(s)>> \o Without(Tail(s), id)

\* account.delete(): the row is removed and the removal committed
Account_delete(s, id) == Without(s, id)

\* account.serialize()
Account_serialize(account) == account

----------------------------------------------------------------------------
\* Responses

Response(status, kind, account, items, location) ==
    [status |-> status, kind |-> kind, account |-> account, items |-> items,
     location |-> location]

Abort(status) == Response(status, "error", NoAccount, <<>>, ABSENT)
Empty(status) == Response(status, "empty", NoAccount, <<>>, ABSENT)

\* What a view hands back: the response and the table and sequence it leaves.
Result(r, s, nid) == [resp |-> r, store |-> s, next_id |-> nid]

\* A view that falls off its end returns None; Flask cannot make a response of
\* None, raises TypeError and answers 500 Internal Server Error.
ViewReturnedNone == Abort(500)

----------------------------------------------------------------------------
\* Requests

Request(method, path, id, content_type, body) ==
    [method |-> method, path |-> path, id |-> id, content_type |-> content_type,
     body |-> body]

\* A request that carries no payload
Plain(method, path, id) == Request(method, path, id, ABSENT, NoBody)

\* The identifiers a path can carry
IdsOn(path) == IF path = RESOURCE THEN Ids ELSE {0}

\* request.get_json() when the request's mimetype is not JSON depends on the
\* Flask / Werkzeug release: it returns None, or aborts with 400, or with 415.
NonJsonModes == {"return_none", "bad_request", "unsupported_media_type"}

is_json(content_type) == content_type \in {JSON_TYPE, JSON_CHARSET}

\* The release only shows on a request whose mimetype is not JSON.
ModesFor(r) == IF is_json(r.content_type) THEN {"return_none"} ELSE NonJsonModes

\* request.get_json(): abort = 0 when it returns, and then data is what it returns
get_json(r, mode) ==
    IF ~is_json(r.content_type)
    THEN CASE mode = "return_none" -> [abort |-> 0, data |-> NoBody]
           [] mode = "bad_request" -> [abort |-> HTTP_400_BAD_REQUEST, data |-> NoBody]
           [] OTHER -> [abort |-> HTTP_415_UNSUPPORTED_MEDIA_TYPE, data |-> NoBody]
    ELSE IF r.body.kind = "malformed"
    THEN [abort |-> HTTP_400_BAD_REQUEST, data |-> NoBody]
    ELSE [abort |-> 0, data |-> r.body]

----------------------------------------------------------------------------
\* Views (service/routes.py)

\* TRUE when check_content_type returns, FALSE when it aborts with 415
\* check_content_type that only asks for some Content-Type header
check_content_type_any(content_type, media_type) ==
    content_type # ABSENT

check_content_type(content_type, media_type) ==
    content_type # ABSENT /\ content_type = media_type

health == Response(HTTP_200_OK, "status", NoAccount, <<>>, ABSENT)

index == Response(HTTP_200_OK, "metadata", NoAccount, <<>>, ABSENT)

\* create_accounts without account.create(): answers 201 and stores nothing
create_accounts_uncommitted(s, nid, r, today, mode) ==
    IF ~check_content_type(r.content_type, JSON_TYPE)
    THEN Result(Abort(HTTP_415_UNSUPPORTED_MEDIA_TYPE), s, nid)
    ELSE LET j == get_json(r, mode) IN
         IF j.abort # 0 THEN Result(Abort(j.abort), s, nid)
         ELSE IF ~DeserializeOk(j.data)
         THEN Result(Abort(HTTP_400_BAD_REQUEST), s, nid)
         ELSE LET account == Account_deserialize(NoAccount, j.data)
                  s2 == Account_create(s, nid, account, today)
                  message == Account_serialize(Account_find(s2, nid))
              IN Result(Response(HTTP_201_CREATED, "account", message, <<>>, "/"),
                        s, nid)

\* create_accounts with account.create() ahead of account.deserialize(): the
\* row is committed before the body is validated
create_accounts_commit_first(s, nid, r, today, mode) ==
    IF ~check_content_type(r.content_type, JSON_TYPE)
    THEN Result(Abort(HTTP_415_UNSUPPORTED_MEDIA_TYPE), s, nid)
    ELSE LET j == get_json(r, mode)
             blank == Account_create(s, nid, NoAccount, today)
         IN
         IF j.abort # 0 THEN Result(Abort(j.abort), blank, nid + 1)
         ELSE IF ~DeserializeOk(j.data)
         THEN Result(Abort(HTTP_400_BAD_REQUEST), blank, nid + 1)
         ELSE LET account == Account_deserialize(NoAccount, j.data)
                  s2 == Account_create(s, nid, account, today)
                  message == Account_serialize(Account_find(s2, nid))
              IN Result(Response(HTTP_201_CREATED, "account", message, <<>>, "/"),
                        s2, nid + 1)

create_accounts(s, nid, r, today, mode) ==
    IF ~check_content_type(r.content_type, JSON_TYPE)
    THEN Result(Abort(HTTP_415_UNSUPPORTED_MEDIA_TYPE), s, nid)
    ELSE LET j == get_json(r, mode) IN
         IF j.abort # 0 THEN Result(Abort(j.abort), s, nid)
         ELSE IF ~DeserializeOk(j.data)
         THEN Result(Abort(HTTP_400_BAD_REQUEST), s, nid)
         ELSE LET account == Account_deserialize(NoAccount, j.data)
                  s2 == Account_create(s, nid, account, today)
                  message == Account_serialize(Account_find(s2, nid))
              IN Result(Response(HTTP_201_CREATED, "account", message, <<>>, "/"),
                        s2, nid + 1)

\* list_accounts that answers 404 for an empty table
list_accounts_empty_404(s) ==
    LET accounts == Account_all(s) IN
    IF Len(accounts) = 0
    THEN Abort(HTTP_404_NOT_FOUND)
    ELSE Response(HTTP_200_OK, "list", NoAccount,
                  [k \in 1 .. Len(accounts) |-> Account_serialize(accounts[k])],
                  ABSENT)

list_accounts(s) ==
    LET accounts == Account_all(s) IN
    IF Len(accounts) = 0
    THEN Response(HTTP_200_OK, "list", NoAccount, <<>>, ABSENT)
    ELSE Response(HTTP_200_OK, "list", NoAccount,
                  [k \in 1 .. Len(accounts) |-> Account_serialize(accounts[k])],
                  ABSENT)

read_account(s, id) ==
    IF Found(s, id)
    THEN Response(HTTP_200_OK, "account", Account_serialize(Account_find(s, id)),
                  <<>>, ABSENT)
    ELSE Abort(HTTP_404_NOT_FOUND)

\* update_account that reads the body before it looks the account up
update_account_parse_first(s, nid, r, mode) ==
    LET j == get_json(r, mode) IN
    IF j.abort # 0 THEN Result(Abort(j.abort), s, nid)
    ELSE IF ~DeserializeOk(j.data)
    THEN Result(Abort(HTTP_400_BAD_REQUEST), s, nid)
    ELSE IF Found(s, r.id)
    THEN LET account == Account_deserialize(Account_find(s, r.id), j.data)
         IN Result(Response(HTTP_200_OK, "account", Account_serialize(account),
                            <<>>, ABSENT),
                   s, nid)
    ELSE Result(Abort(HTTP_404_NOT_FOUND), s, nid)

\* update_account that builds a new Account from the body and creates it
update_account_as_new(s, nid, r, mode) ==
    IF Found(s, r.id)
    THEN LET j == get_json(r, mode) IN
         IF j.abort # 0 THEN Result(Abort(j.abort), s, nid)
         ELSE IF ~DeserializeOk(j.data)
         THEN Result(Abort(HTTP_400_BAD_REQUEST), s, nid)
         ELSE LET account == Account_deserialize(NoAccount, j.data)
                  s2 == Account_create(Account_delete(s, r.id), nid, account, "d0")
              IN Result(Response(HTTP_200_OK, "account",
                                 Account_serialize(Account_find(s2, nid)),
                                 <<>>, ABSENT),
                        s2, nid + 1)
    ELSE Result(Abort(HTTP_404_NOT_FOUND), s, nid)

\* The view changes the account object of its session and returns; it never
\* commits, so the table is left as it was.
update_account(s, nid, r, mode) ==
    IF Found(s, r.id)
    THEN LET j == get_json(r, mode) IN
         IF j.abort # 0 THEN Result(Abort(j.abort), s, nid)
         ELSE IF ~DeserializeOk(j.data)
         THEN Result(Abort(HTTP_400_BAD_REQUEST), s, nid)
         ELSE LET account == Account_deserialize(Account_find(s, r.id), j.data)
              IN Result(Response(HTTP_200_OK, "account", Account_serialize(account),
                                 <<>>, ABSENT),
                        s, nid)
    ELSE Result(Abort(HTTP_404_NOT_FOUND), s, nid)

\* delete_account without account.delete()
delete_account_keep(s, nid, id) ==
    IF Found(s, id)
    THEN Result(Empty(HTTP_204_NO_CONTENT), s, nid)
    ELSE Result(ViewReturnedNone, s, nid)

delete_account(s, nid, id) ==
    IF Found(s, id)
    THEN Result(Empty(HTTP_204_NO_CONTENT), Account_delete(s, id), nid)
    ELSE Result(ViewReturnedNone, s, nid)

----------------------------------------------------------------------------
\* Routing (the app.route declarations and Flask's dispatch)

\* The route table with DELETE also registered on the collection path
Routes_delete_collection ==
    { [rule |-> "/health", methods |-> {"GET"}, endpoint |-> "health"],
      [rule |-> "/", methods |-> {"GET"}, endpoint |-> "index"],
      [rule |-> COLLECTION, methods |-> {"POST"}, endpoint |-> "create_accounts"],
      [rule |-> COLLECTION, methods |-> {"GET", "DELETE"}, endpoint |-> "list_accounts"],
      [rule |-> RESOURCE, methods |-> {"GET"}, endpoint |-> "read_account"],
      [rule |-> RESOURCE, methods |-> {"PUT"}, endpoint |-> "update_account"],
      [rule |-> RESOURCE, methods |-> {"DELETE"}, endpoint |-> "delete_account"] }

Routes ==
    { [rule |-> "/health", methods |-> {"GET"}, endpoint |-> "health"],
      [rule |-> "/", methods |-> {"GET"}, endpoint |-> "index"],
      [rule |-> COLLECTION, methods |-> {"POST"}, endpoint |-> "create_accounts"],
      [rule |-> COLLECTION, methods |-> {"GET"}, endpoint |-> "list_accounts"],
      [rule |-> RESOURCE, methods |-> {"GET"}, endpoint |-> "read_account"],
      [rule |-> RESOURCE, methods |-> {"PUT"}, endpoint |-> "update_account"],
      [rule |-> RESOURCE, methods |-> {"DELETE"}, endpoint |-> "delete_account"] }

\* A rule that lists GET also answers HEAD.
RuleMethods(route) ==
    route.methods \cup (IF "GET" \in route.methods THEN {"HEAD"} ELSE {})

Matching(path, method) ==
    {route \in Routes : route.rule = path /\ method \in RuleMethods(route)}

\* The view a request is dispatched to: "OPTIONS" when Flask answers OPTIONS
\* itself, "NONE" when the path has no rule for the method (405).
Endpoint(path, method) ==
    IF Matching(path, method) # {}
    THEN (CHOOSE route \in Matching(path, method) : TRUE).endpoint
    ELSE IF method = "OPTIONS" THEN "OPTIONS"
    ELSE "NONE"

\* The body of the answer to a HEAD request is dropped.
Sent(r, response) ==
    IF r.method = "HEAD"
    THEN [response EXCEPT !.account = NoAccount, !.items = <<>>]
    ELSE response

----------------------------------------------------------------------------
\* State machine: one request per step

NoRequest ==
    [method |-> "GET", path |-> "/", id |-> 0, content_type |-> ABSENT,
     body |-> NoBody]

Init ==
    /\ store = <<>>
    /\ next_id = 1
    /\ req = NoRequest
    /\ resp = index
    /\ pstore = <<>>
    /\ prev = [kind |-> "none", id |-> 0, body |-> NoBody]
    /\ live = {}

\* What an exchange did to the table.
Effect(r, response) ==
    IF response.status = HTTP_201_CREATED
    THEN [kind |-> "created", id |-> response.account.id, body |-> r.body]
    ELSE IF r.method = "DELETE" /\ response.status = HTTP_204_NO_CONTENT
    THEN [kind |-> "deleted", id |-> r.id, body |-> NoBody]
    ELSE [kind |-> "none", id |-> 0, body |-> NoBody]

Handle(r, res) ==
    /\ res.next_id <= MaxId + 1
    /\ req' = r
    /\ resp' = Sent(r, res.resp)
    /\ store' = res.store
    /\ next_id' = res.next_id
    /\ pstore' = store
    /\ prev' = Effect(req, resp)
    /\ live' = LET e == Effect(r, res.resp) IN
               CASE e.kind = "created" -> live \cup {e.id}
                 [] e.kind = "deleted" -> live \ {e.id}
                 [] OTHER -> live

Health ==
    \E m \in Methods :
        /\ Endpoint("/health", m) = "health"
        /\ Handle(Plain(m, "/health", 0), Result(health, store, next_id))

Index ==
    \E m \in Methods :
        /\ Endpoint("/", m) = "index"
        /\ Handle(Plain(m, "/", 0), Result(index, store, next_id))

CreateAccounts ==
    \E m \in Methods :
        /\ Endpoint(COLLECTION, m) = "create_accounts"
        /\ \E ct \in ContentTypes, b \in Bodies, today \in Dates :
             LET r == Request(m, COLLECTION, 0, ct, b) IN
             \E mode \in ModesFor(r) :
                 Handle(r, create_accounts(store, next_id, r, today, mode))

ListAccounts ==
    \E m \in Methods :
        /\ Endpoint(COLLECTION, m) = "list_accounts"
        /\ Handle(Plain(m, COLLECTION, 0),
                  Result(list_accounts(store), store, next_id))

ReadAccount ==
    \E m \in Methods :
        /\ Endpoint(RESOURCE, m) = "read_account"
        /\ \E id \in Ids :
             Handle(Plain(m, RESOURCE, id),
                    Result(read_account(store, id), store, next_id))

UpdateAccount ==
    \E m \in Methods :
        /\ Endpoint(RESOURCE, m) = "update_account"
        /\ \E id \in Ids, ct \in ContentTypes, b \in Bodies :
             LET r == Request(m, RESOURCE, id, ct, b) IN
             \E mode \in ModesFor(r) :
                 Handle(r, update_account(store, next_id, r, mode))

DeleteAccount ==
    \E m \in Methods :
        /\ Endpoint(RESOURCE, m) = "delete_account"
        /\ \E id \in Ids :
             Handle(Plain(m, RESOURCE, id), delete_account(store, next_id, id))

AutomaticOptions ==
    \E m \in Methods, p \in Paths :
        /\ Endpoint(p, m) = "OPTIONS"
        /\ \E id \in IdsOn(p) :
             Handle(Plain(m, p, id), Result(Empty(HTTP_200_OK), store, next_id))

MethodNotAllowed ==
    \E m \in Methods, p \in Paths :
        /\ Endpoint(p, m) = "NONE"
        /\ \E id \in IdsOn(p) :
             Handle(Plain(m, p, id),
                    Result(Abort(HTTP_405_METHOD_NOT_ALLOWED), store, next_id))

Next ==
    \/ Health
    \/ Index
    \/ CreateAccounts
    \/ ListAccounts
    \/ ReadAccount
    \/ UpdateAccount
    \/ DeleteAccount
    \/ AutomaticOptions
    \/ MethodNotAllowed

Spec == Init /\ [][Next]_vars

----------------------------------------------------------------------------
\* Vocabulary of the properties

IsCreate == req.method = "POST" /\ req.path = COLLECTION
IsList == req.method = "GET" /\ req.path = COLLECTION
IsRead == req.method = "GET" /\ req.path = RESOURCE
IsUpdate == req.method = "PUT" /\ req.path = RESOURCE
IsDelete == req.method = "DELETE" /\ req.path = RESOURCE

Stored == req.id \in StoreIds(pstore)      \* the request's id was in the table
Row(s, id) == CHOOSE a \in {s[k] : k \in 1 .. Len(s)} : a.id = id

\* The account carries the body's name, email, address and phone_number.
Carries(account, b) ==
    /\ account.name = b.name
    /\ account.email = b.email
    /\ account.address = b.address
    /\ account.phone_number = PhoneOf(b)

OtherRow(a) == a.id # req.id

TypeOK ==
    /\ next_id \in 1 .. MaxId + 1
    /\ Len(store) <= MaxId
    /\ \A k \in 1 .. Len(store) : store[k].id \in 1 .. next_id - 1
    /\ \A k, l \in 1 .. Len(store) : store[k].id = store[l].id => k = l
    /\ live \subseteq 1 .. MaxId

----------------------------------------------------------------------------
\* C1: create with Content-Type application/json and a valid payload p
\* answers 201 with a fresh identifier i, and a read of i as the next request
\* answers 200 with identifier i and p's name, email, address, phone_number.
C1_CreateThenRead ==
    /\ (IsCreate /\ req.content_type = JSON_TYPE /\ ValidPayload(req.body))
         => /\ resp.status = HTTP_201_CREATED
            /\ resp.account.id >= 1
            /\ resp.account.id \notin StoreIds(pstore)
            /\ Carries(resp.account, req.body)
    /\ (prev.kind = "created" /\ IsRead /\ req.id = prev.id)
         => /\ resp.status = HTTP_200_OK
            /\ resp.account.id = prev.id
            /\ Carries(resp.account, prev.body)

C1_Witness ==
    /\ prev.kind = "created" /\ prev.body = Kim
    /\ IsRead /\ req.id = prev.id
    /\ resp.status = HTTP_200_OK
    /\ Len(store) = 2

\* C2: delete of an identifier that is not in the table answers 204 and
\* leaves the table as it was; so a second delete of the same account, right
\* after the first, answers 204 as well.
C2_DeleteMissingIs204 ==
    /\ (IsDelete /\ ~Stored)
         => resp.status = HTTP_204_NO_CONTENT /\ store = pstore
    /\ (prev.kind = "deleted" /\ IsDelete /\ req.id = prev.id)
         => resp.status = HTTP_204_NO_CONTENT

\* C3: update of a stored account with a valid body b answers 200 with b's
\* fields, and the table then holds b's fields for it, so that a later read
\* or list returns them.
C3_UpdatePersisted ==
    (IsUpdate /\ Stored /\ is_json(req.content_type) /\ ValidPayload(req.body))
        => /\ resp.status = HTTP_200_OK
           /\ Carries(resp.account, req.body)
           /\ Carries(read_account(store, req.id).account, req.body)
           /\ \E k \in 1 .. Len(list_accounts(store).items) :
                  /\ list_accounts(store).items[k].id = req.id
                  /\ Carries(list_accounts(store).items[k], req.body)

\* C4: read and update of an identifier that is not in the table answer 404
\* and leave the table as it was, whatever body and Content-Type the update
\* carries.
C4_UnknownIdIs404 ==
    ((IsRead \/ IsUpdate) /\ ~Stored)
        => resp.status = HTTP_404_NOT_FOUND /\ store = pstore

C4_Witness ==
    /\ IsUpdate /\ ~Stored
    /\ req.body = Malformed /\ req.content_type = "text/html"
    /\ resp.status = HTTP_404_NOT_FOUND
    /\ store # <<>>

\* C5: create with a Content-Type that is absent or is not application/json
\* answers 415 whatever the body is and adds no account; update makes no such
\* check: it accepts a JSON Content-Type that create rejects, and answers 404
\* for an unknown identifier under any Content-Type.
C5_WrongContentTypeIs415 ==
    /\ (IsCreate /\ req.content_type # JSON_TYPE)
         => resp.status = HTTP_415_UNSUPPORTED_MEDIA_TYPE /\ store = pstore
    /\ (IsUpdate /\ Stored /\ req.content_type = JSON_CHARSET
            /\ ValidPayload(req.body))
         => resp.status = HTTP_200_OK
    /\ (IsUpdate /\ ~Stored) => resp.status # HTTP_415_UNSUPPORTED_MEDIA_TYPE

C5_Witness ==
    /\ IsCreate /\ req.content_type = JSON_CHARSET /\ req.body = Sam
    /\ resp.status = HTTP_415_UNSUPPORTED_MEDIA_TYPE
    /\ store = pstore /\ store # <<>>

\* C6: create with Content-Type application/json and a body without name,
\* email or address answers 400 and adds no account: a list after it returns
\* what a list before it returned.
C6_MissingFieldIs400 ==
    (IsCreate /\ req.content_type = JSON_TYPE /\ req.body.kind = "object"
        /\ (req.body.name = ABSENT \/ req.body.email = ABSENT
               \/ req.body.address = ABSENT))
        => /\ resp.status = HTTP_400_BAD_REQUEST
           /\ store = pstore
           /\ list_accounts(store) = list_accounts(pstore)

C6_Witness ==
    /\ IsCreate /\ req.content_type = JSON_TYPE /\ req.body = NoEmail
    /\ resp.status = HTTP_400_BAD_REQUEST
    /\ Len(store) = 1

\* C7: list answers 200 with exactly one entry for every account that was
\* created (201) and not deleted (204) since, and with the empty sequence
\* when there is none.
C7_ListIsLiveAccounts ==
    /\ StoreIds(store) = live
    /\ Len(store) = Cardinality(live)
    /\ IsList
         => /\ resp.status = HTTP_200_OK
            /\ Len(resp.items) = Cardinality(live)
            /\ {resp.items[k].id : k \in 1 .. Len(resp.items)} = live
            /\ (live = {} => resp.items = <<>>)

C7_Witness ==
    /\ IsList /\ resp.status = HTTP_200_OK
    /\ Len(resp.items) = 1 /\ next_id = 3
    /\ prev.kind = "deleted"

\* C8: delete of a stored account answers 204 with no body and removes that
\* row and no other; a read of it as the next request answers 404, and every
\* other account reads as before.
C8_DeleteRemovesExactlyOne ==
    /\ (IsDelete /\ Stored)
         => /\ resp.status = HTTP_204_NO_CONTENT
            /\ resp.kind = "empty"
            /\ store = SelectSeq(pstore, OtherRow)
            /\ \A j \in StoreIds(pstore) \ {req.id} :
                   read_account(store, j) = read_account(pstore, j)
    /\ (prev.kind = "deleted" /\ IsRead /\ req.id = prev.id)
         => resp.status = HTTP_404_NOT_FOUND

C8_Witness ==
    /\ prev.kind = "deleted" /\ IsRead /\ req.id = prev.id
    /\ resp.status = HTTP_404_NOT_FOUND
    /\ Len(store) = 1

C10_OnlyDeclaredMethods ==
    (\/ req.path = COLLECTION /\ req.method \notin {"POST", "GET"}
     \/ req.path = RESOURCE /\ req.method \notin {"GET", "PUT", "DELETE"})
        => resp.status = HTTP_405_METHOD_NOT_ALLOWED /\ store = pstore

\* C10 amended: HEAD goes to the GET view of the path and OPTIONS is answered
\* by the framework, so neither answers 405; every method other than these
\* and the declared ones (PUT, DELETE, PATCH on /accounts; POST, PATCH on
\* /accounts/{id}; POST, PUT, DELETE, PATCH on / and /health) answers 405 and
\* leaves the table as it was.
C10_UndeclaredMethodIs405 ==
    /\ (\/ req.path = COLLECTION /\ req.method \in {"PUT", "DELETE", "PATCH"}
        \/ req.path = RESOURCE /\ req.method \in {"POST", "PATCH"}
        \/ req.path \in {"/", "/health"}
              /\ req.method \in {"POST", "PUT", "DELETE", "PATCH"})
         => resp.status = HTTP_405_METHOD_NOT_ALLOWED /\ store = pstore
    /\ req.method \in {"HEAD", "OPTIONS"}
         => resp.status # HTTP_405_METHOD_NOT_ALLOWED /\ store = pstore
    /\ (req.method = "OPTIONS" \/ (req.method = "HEAD" /\ req.path = COLLECTION))
         => resp.status = HTTP_200_OK

C10_Witness ==
    /\ req.path = COLLECTION /\ req.method = "DELETE"
    /\ resp.status = HTTP_405_METHOD_NOT_ALLOWED
    /\ store = pstore /\ store # <<>>

====
